---- MODULE Spec2Model ----
(***************************************************************************)
(* State-machine model of uncompress-tool (src/main.rs): the egui consumer *)
(* UnzipApp::update, the extraction worker thread it spawns, extract_zip,  *)
(* extract_tar_gz, list_archive_contents and get_file_type.                *)
(*                                                                         *)
(* Conventions.  Strings of the program are kept as they are when ASCII;   *)
(* the Chinese user-visible messages are written as ASCII glosses marked   *)
(* "[zh]" (the original text is quoted in the comment next to each).       *)
(* File names and entry names are sequences of tokens; "." and "/" are the *)
(* separator tokens and every other token stands for a run of characters   *)
(* that holds no separator.  An f32 fraction n/d is the pair <<n, d>>.     *)
(* Option values: 0 is None for a job id or an archive id, "None" for a    *)
(* directory.                                                              *)
(***************************************************************************)
EXTENDS Integers, Sequences, FiniteSets, TLC

\* Bound: the number of extraction jobs one run of the application starts.
MaxJobs == 2

None == "None"

(***************************************************************************)
(* Token-sequence helpers                                                  *)
(***************************************************************************)
Last(s) == s[Len(s)]

\* Index of the last occurrence of token t in s, 0 when there is none.
LastIndexOf(s, t) ==
    IF \E k \in 1..Len(s) : s[k] = t
    THEN CHOOSE k \in 1..Len(s) : s[k] = t /\ \A m \in (k+1)..Len(s) : s[m] # t
    ELSE 0

\* std::path::Path::extension of a file name: None when the name has no ".",
\* or when its only "." is the leading one; else the part after the last ".".
Extension(path) ==
    LET k == LastIndexOf(path, ".")
    IN  IF k = 0 \/ k = 1
        THEN [some |-> FALSE, ext |-> <<>>]
        ELSE [some |-> TRUE, ext |-> SubSeq(path, k + 1, Len(path))]

\* str::split('.').last(): the part after the last ".", the whole name when
\* it holds no ".".
SplitDotLast(name) == SubSeq(name, LastIndexOf(name, ".") + 1, Len(name))

\* str::ends_with for a one-character separator / for a token suffix.
EndsWith(name, suffix) ==
    /\ Len(name) >= Len(suffix)
    /\ SubSeq(name, Len(name) - Len(suffix) + 1, Len(name)) = suffix

RECURSIVE Components(_)
\* The normal components of a relative path: the runs between "/" tokens.
Components(name) ==
    IF name = <<>> THEN <<>>
    ELSE LET k == IF \E m \in 1..Len(name) : name[m] = "/"
                  THEN CHOOSE m \in 1..Len(name) :
                         name[m] = "/" /\ \A q \in 1..(m-1) : name[q] # "/"
                  ELSE Len(name) + 1
             head == SubSeq(name, 1, k - 1)
             rest == SubSeq(name, k + 1, Len(name))
         IN  IF head = <<>> THEN Components(rest)
             ELSE <<head>> \o Components(rest)

(***************************************************************************)
(* get_file_type / list_archive_contents                                   *)
(***************************************************************************)
get_file_type(filename) ==
    IF EndsWith(filename, <<"/">>) THEN "folder"
    ELSE LET e == SplitDotLast(filename)
         IN  CASE e = <<"txt">> -> "text"
               [] e \in {<<"jpg">>, <<"jpeg">>, <<"png">>, <<"gif">>} -> "image"
               [] e = <<"pdf">> -> "pdf"
               [] e \in {<<"zip">>, <<"gz">>, <<"tar">>} -> "archive"
               [] e \in {<<"mp3">>, <<"wav">>} -> "audio"
               [] e \in {<<"mp4">>, <<"avi">>} -> "video"
               [] e = <<"exe">> -> "executable"
               [] OTHER -> "file"

(***************************************************************************)
(* The environment: archive files on disk and output directories           *)
(***************************************************************************)
\* Entries.  kind is the TAR header's entry type; a ZIP entry is a directory
\* when its name ends with "/".  data is the decompressed content (bytes).
\* ro says that the permission bits recorded in the archive have no write
\* bit.
E_dir  == [name |-> <<"d", "/">>,                  kind |-> "dir",  data |-> <<>>,
           ro |-> TRUE]
E_txt  == [name |-> <<"d", "/", "f", ".", "txt">>, kind |-> "file", data |-> <<1, 2>>,
           ro |-> TRUE]
E_bin  == [name |-> <<"g">>,                       kind |-> "file", data |-> <<2>>,
           ro |-> FALSE]
E_nil  == [name |-> <<"e">>,                       kind |-> "file", data |-> <<>>,
           ro |-> FALSE]
\* An entry whose name climbs out of the directory it is extracted into.
E_up   == [name |-> <<".", ".", "/", "e">>,        kind |-> "file", data |-> <<>>,
           ro |-> TRUE]

\* An archive file: its path, what its bytes really are ("zip", "targz",
\* "targz_cut" for a gzip-TAR stream that breaks off, "garbage", or "missing"
\* when no such file can be opened), and the entries that can be read from
\* it.
Archives ==
    << [path |-> <<"a", ".", "zip">>, content |-> "zip",     entries |-> <<E_txt, E_dir>>],
       [path |-> <<"c", ".", "zip">>, content |-> "zip",     entries |-> <<>>],
       [path |-> <<"a", ".", "tar", ".", "gz">>, content |-> "targz", entries |-> <<E_txt, E_dir>>],
       [path |-> <<"b", ".", "gz">>,  content |-> "targz",   entries |-> <<E_dir, E_up>>],
       [path |-> <<"x", ".", "zip">>, content |-> "garbage", entries |-> <<>>],
       [path |-> <<"x", ".", "gz">>,  content |-> "targz_cut", entries |-> <<E_dir>>],
       [path |-> <<"a", ".", "rar">>, content |-> "zip",     entries |-> <<E_bin>>],
       [path |-> <<"a", ".", "ZIP">>, content |-> "zip",     entries |-> <<E_bin>>],
       [path |-> <<".", "zip">>,      content |-> "zip",     entries |-> <<E_bin>>],
       [path |-> <<"zip">>,           content |-> "targz",   entries |-> <<E_bin>>] >>

ArchiveIds == DOMAIN Archives

\* Output directories the folder picker can return: one writable, one whose
\* permission bits mark it read-only.
OutDirs == {"rw", "ro"}

\* std::fs::Permissions::readonly of the output directory's metadata.
PermissionsReadonly(dir) == dir = "ro"

\* Whether File::open succeeds on the archive, and what a format reader then
\* finds in it.
FileOpens(a) == Archives[a].content # "missing"
ZipReadable(a) == Archives[a].content = "zip"
TarGzReadable(a) == Archives[a].content = "targz"
\* The entries a TAR reader yields before the stream ends or breaks.
TarReadable(a) ==
    IF Archives[a].content \in {"targz", "targz_cut"}
    THEN Archives[a].entries ELSE <<>>
TarStreamError == "io: unexpected end of file"

(***************************************************************************)
(* list_archive_contents: the Result it returns, and whether it opened the *)
(* file.                                                                   *)
(***************************************************************************)
\* The format the match at the head of list_archive_contents selects.
ListFormat(e) ==
    IF e.some /\ e.ext = <<"zip">> THEN "zip"
    ELSE IF e.some /\ e.ext = <<"gz">> THEN "gz"
    ELSE "unsupported"

\* String::from_utf8_lossy over bytes none of which starts a multi-byte
\* sequence that is completed: a byte below 128 is its own code point, any
\* other byte becomes U+FFFD (65533).
Utf8Lossy(bytes) ==
    [k \in 1..Len(bytes) |-> IF bytes[k] < 128 THEN bytes[k] ELSE 65533]

\* One catalogue row's content: the decoded body of a ".txt" entry, else
\* the summary "Type: {type} | Size: {size} bytes".
ListContent(entry) ==
    IF EndsWith(entry.name, <<".", "txt">>)
    THEN [text |-> TRUE, data |-> Utf8Lossy(entry.data), type |-> "", size |-> 0]
    ELSE [text |-> FALSE, data |-> <<>>, type |-> get_file_type(entry.name),
          size |-> Len(entry.data)]

ListRows(entries) ==
    [k \in 1..Len(entries) |->
        [name |-> entries[k].name, content |-> ListContent(entries[k])]]

\* files is the local Vec at the return: on Err, the rows pushed before the
\* failing entry (they are dropped with the function's frame).
list_archive_contents(a) ==
    LET fmt == ListFormat(Extension(Archives[a].path))
    IN  CASE fmt = "unsupported" ->
               [ok |-> FALSE, err |-> "Unsupported file format",
                files |-> <<>>, opened |-> FALSE]
          [] fmt # "unsupported" /\ ~FileOpens(a) ->
               [ok |-> FALSE, err |-> "io: No such file or directory",
                files |-> <<>>, opened |-> FALSE]
          [] fmt = "zip" /\ FileOpens(a) /\ ~ZipReadable(a) ->
               [ok |-> FALSE, err |-> "zip: invalid Zip archive",
                files |-> <<>>, opened |-> TRUE]
          [] fmt = "gz" /\ FileOpens(a) /\ ~TarGzReadable(a) ->
               [ok |-> FALSE, err |-> TarStreamError,
                files |-> ListRows(TarReadable(a)), opened |-> TRUE]
          [] OTHER ->
               [ok |-> TRUE, err |-> "",
                files |-> ListRows(Archives[a].entries), opened |-> TRUE]

\* UnzipApp::update, file pick: unwrap_or_default, then the type column.
FileListOfPartial(listing) ==
    [k \in 1..Len(listing.files) |->
        [name |-> listing.files[k].name,
         type |-> get_file_type(listing.files[k].name),
         content |-> listing.files[k].content]]
FileListOf(listing) ==
    LET rows == IF listing.ok THEN listing.files ELSE <<>>
    IN  [k \in 1..Len(rows) |->
            [name |-> rows[k].name, type |-> get_file_type(rows[k].name),
             content |-> rows[k].content]]

(***************************************************************************)
(* Messages                                                                *)
(***************************************************************************)
StatusReady      == "Ready"
StatusExtracting == "[zh] extracting..."          \* "正在解压..."
StatusNeedBoth   == "[zh] select both archive and output directory"
                                                  \* "请同时选择压缩文件和输出目录"
StatusRetry      == "[zh] ready to retry..."      \* "准备重试..."
StatusSuccess    == "[zh] extraction succeeded!"  \* "解压成功！"
ErrUnsupportedZh == "[zh] unsupported file format" \* "不支持的文件格式"
MsgReadOnly      == "[zh] output directory is read-only, check permissions"
MsgUnsupported   == "[zh] unsupported file format"
MsgCorrupt       == "[zh] cannot read archive, file may be corrupt"
MsgCreateDir     == "[zh] cannot create output directory"
MsgWrite         == "[zh] cannot write file, disk full or no permission"
MsgUnknown       == "[zh] unknown error during extraction"
ErrPrefix        == "[zh] error: "                 \* "错误: "

\* The worker's match on e.to_string(): the message for an error text.
ErrorMsg(text) ==
    CASE text = "Output directory is read-only"     -> MsgReadOnly
      [] text = "Unsupported file format"           -> MsgUnsupported
      [] text = "Failed to read archive"            -> MsgCorrupt
      [] text = "Failed to create output directory" -> MsgCreateDir
      [] text = "Failed to write file"              -> MsgWrite
      [] OTHER                                      -> MsgUnknown

\* The status event the worker sends for a result.  A status text is the
\* tuple of its pieces: an error is format!("错误: {}", error_msg).
StatusEventAlwaysSuccess(result) ==
    [message |-> <<StatusSuccess>>, color |-> "GREEN"]
StatusEventOf(result) ==
    IF result.state = "ok"
    THEN [message |-> <<StatusSuccess>>, color |-> "GREEN"]
    ELSE [message |-> <<ErrPrefix, ErrorMsg(result.text)>>, color |-> "RED"]

\* Results of an extraction: pending, Ok(()), or Err with the error's
\* to_string() text.  cat names the place the error arose, in the terms of
\* the error taxonomy (it is not a value the program holds).
Pending == [state |-> "pending", cat |-> "", text |-> ""]
Ok == [state |-> "ok", cat |-> "", text |-> ""]
Err(cat, text) == [state |-> "err", cat |-> cat, text |-> text]

(***************************************************************************)
(* The file system under an output directory: a set of nodes               *)
(* [path, kind, data, ro], path being the components of output_dir.join(..) *)
(* after the directory: a ".." component leads to the directory above.     *)
(***************************************************************************)
\* A path that names the output directory itself or a directory above it
\* (only ".." components): these exist before any extraction.
Above(p)     == \A k \in 1..Len(p) : p[k] = <<".", ".">>
Exists(f, p) == Above(p) \/ \E n \in f : n.path = p
IsDir(f, p)  == Above(p) \/ \E n \in f : n.path = p /\ n.kind = "dir"
IsFile(f, p) == \E n \in f : n.path = p /\ n.kind = "file"
NodeAt(f, p) == CHOOSE n \in f : n.path = p
Parent(p)    == SubSeq(p, 1, Len(p) - 1)
Prefixes(p)  == {SubSeq(p, 1, k) : k \in 1..Len(p)}

\* std::fs::create_dir_all(p), then set_permissions(p, readonly = false).
\* Fails, creating nothing, when p or one of its ancestors is a file.
CreateDirAll(f, p) ==
    IF \E q \in Prefixes(p) : IsFile(f, q)
    THEN [ok |-> FALSE, fs |-> f]
    ELSE [ok |-> TRUE,
          fs |-> {n \in f : n.path # p}
                 \cup {[path |-> q, kind |-> "dir", data |-> <<>>, ro |-> FALSE] :
                         q \in {r \in Prefixes(p) : ~Exists(f, r)}}
                 \cup (IF Above(p) THEN {}
                       ELSE {[path |-> p, kind |-> "dir", data |-> <<>>, ro |-> FALSE]})]

\* The parent step of a file entry: if let Some(p) = parent, !p.exists() ->
\* create_dir_all(p) and clear its read-only bit.
EnsureParent(f, p) ==
    IF Exists(f, Parent(p)) THEN [ok |-> TRUE, fs |-> f]
    ELSE CreateDirAll(f, Parent(p))

\* The file at p is created (or truncated) and data is copied into it:
\* File::create and io::copy in extract_zip, which leave the permission bits
\* of a new file writable (ro = FALSE); Entry::unpack in extract_tar_gz,
\* which then sets the bits the archive recorded (ro = the entry's).  Fails
\* when p is a directory or its parent is not one.
WriteFile(f, p, data, ro) ==
    IF p = <<>> \/ IsDir(f, p) \/ ~IsDir(f, Parent(p))
    THEN [ok |-> FALSE, fs |-> f]
    ELSE [ok |-> TRUE,
          fs |-> {n \in f : n.path # p}
                 \cup {[path |-> p, kind |-> "file", data |-> data, ro |-> ro]}]

\* "Ensure file is writable": metadata(p), set_readonly(false),
\* set_permissions(p).
ClearReadonlySkipped(f, p) == f
ClearReadonly(f, p) ==
    {IF n.path = p THEN [n EXCEPT !.ro = FALSE] ELSE n : n \in f}

(***************************************************************************)
(* Progress events and the consumer's polls                                *)
(***************************************************************************)
RECURSIVE Gcd(_, _)
Gcd(a, b) == IF b = 0 THEN a ELSE Gcd(b, a % b)

\* The f32 quotient num / den (den > 0), kept exact and in lowest terms, so
\* that equal quotients are equal values: n / n is 1.0.
Quotient(num, den) == <<num \div Gcd(num, den), den \div Gcd(num, den)>>

ProgressEvent(num, den, fin) ==
    [fraction |-> Quotient(num, den), finished |-> fin]
FinalEvent == ProgressEvent(1, 1, TRUE)

VARIABLES
    input_file,           \* Option<PathBuf>: an archive id, 0 for None
    output_dir,           \* Option<PathBuf>: a directory, "None"
    status,
    status_color,
    is_extracting,
    extraction_progress,  \* f32 as <<numerator, denominator>>
    progress_receiver,    \* Option<Receiver>: the job whose channel it reads, 0
    status_receiver,      \* Option<Receiver>: likewise
    file_list,
    jobs,                 \* the worker threads spawned so far, one per job
    progress_chan,        \* per job, the events buffered in its progress channel
    status_chan,          \* per job, the events buffered in its status channel
    fs,                   \* per output directory, the nodes below it
    consumed,             \* per job, the progress events the consumer received
    listing,              \* the Result of the last list_archive_contents call
    probe                 \* a call of a pure function: its input and result

consumer_vars == <<input_file, output_dir, status, status_color, is_extracting,
                   extraction_progress, progress_receiver, status_receiver,
                   file_list>>
vars == <<input_file, output_dir, status, status_color, is_extracting,
          extraction_progress, progress_receiver, status_receiver, file_list,
          jobs, progress_chan, status_chan, fs, consumed, listing, probe>>

JobIds == 1..Len(jobs)

NoListing == [archive |-> 0, ok |-> TRUE, err |-> "", opened |-> FALSE]

\* No call of a pure function under observation.
NoProbe == [name |-> <<>>, data |-> <<>>, call |-> "none", type |-> "",
            rows |-> <<>>]

\* UnzipApp::default, and the world around it before any extraction.
Start ==
    /\ input_file = 0
    /\ output_dir = None
    /\ status = <<StatusReady>>
    /\ status_color = "WHITE"
    /\ is_extracting = FALSE
    /\ extraction_progress = <<0, 1>>
    /\ progress_receiver = 0
    /\ status_receiver = 0
    /\ file_list = <<>>
    /\ jobs = <<>>
    /\ progress_chan = <<>>
    /\ status_chan = <<>>
    /\ fs = [d \in OutDirs |-> {}]
    /\ consumed = <<>>
    /\ listing = NoListing

Init == Start /\ probe = NoProbe

RECURSIVE DrainProgress(_, _, _, _)
\* The loop `while let Ok((progress, is_finished)) = receiver.try_recv()`:
\* q is what the channel holds, seen what the loop has received.  keep says
\* whether the receiver was put back into progress_receiver.
DrainProgress(q, progress, extracting, seen) ==
    IF q = <<>>
    THEN [q |-> <<>>, progress |-> progress, is_extracting |-> extracting,
          keep |-> FALSE, seen |-> seen]
    ELSE IF Head(q).finished
    THEN DrainProgress(Tail(q), Head(q).fraction, FALSE, Append(seen, Head(q)))
    ELSE [q |-> Tail(q), progress |-> Head(q).fraction,
          is_extracting |-> extracting, keep |-> TRUE,
          seen |-> Append(seen, Head(q))]

\* "Check for progress updates": the receiver is taken; when the loop ends on
\* Err (channel empty or disconnected) it is dropped, and with it whatever
\* the channel receives later.
PollProgress ==
    IF progress_receiver = 0
    THEN [progress |-> extraction_progress, is_extracting |-> is_extracting,
          receiver |-> 0, chan |-> progress_chan, consumed |-> consumed]
    ELSE LET j == progress_receiver
             d == DrainProgress(progress_chan[j], extraction_progress,
                                is_extracting, <<>>)
         IN  [progress |-> d.progress, is_extracting |-> d.is_extracting,
              receiver |-> IF d.keep THEN j ELSE 0,
              chan |-> [progress_chan EXCEPT ![j] = d.q],
              consumed |-> [consumed EXCEPT ![j] = @ \o d.seen]]

\* "Check for status updates": every buffered status is applied in order and
\* the receiver is dropped.
PollStatus ==
    IF status_receiver = 0
    THEN [status |-> status, color |-> status_color, chan |-> status_chan]
    ELSE LET q == status_chan[status_receiver]
         IN  [status |-> IF q = <<>> THEN status ELSE Last(q).message,
              color  |-> IF q = <<>> THEN status_color ELSE Last(q).color,
              chan   |-> [status_chan EXCEPT ![status_receiver] = <<>>]]

\* list_archive_contents over the archives on disk (a table of its results).
Listings == [a \in ArchiveIds |-> list_archive_contents(a)]

\* A frame of UnzipApp::update: both polls, then the UI event of the frame
\* acting on the fields as the polls left them.  pp and ps are the polls'
\* results; the other arguments are the fields' values at the end of the
\* frame.
EndFrame(pp, inp, out, st, col, extracting, rx, list) ==
    /\ input_file' = inp
    /\ output_dir' = out
    /\ status' = st
    /\ status_color' = col
    /\ is_extracting' = extracting
    /\ extraction_progress' = pp.progress
    /\ progress_receiver' = rx
    /\ status_receiver' = 0
    /\ file_list' = list

\* A frame that spawns no worker.
NoSpawn(pp, ps) ==
    /\ jobs' = jobs
    /\ progress_chan' = pp.chan
    /\ status_chan' = ps.chan
    /\ consumed' = pp.consumed
    /\ fs' = fs
    /\ probe' = probe

\* A frame with no click (a repaint).
FrameIdle ==
    LET pp == PollProgress
        ps == PollStatus
    IN  /\ EndFrame(pp, input_file, output_dir, ps.status, ps.color,
                    pp.is_extracting, pp.receiver, file_list)
        /\ NoSpawn(pp, ps)
        /\ listing' = listing

\* The file picker returns archive a: the catalogue is rebuilt from
\* list_archive_contents(a).unwrap_or_default().
FramePickFile(a) ==
    LET pp == PollProgress
        ps == PollStatus
        r  == Listings[a]
    IN  /\ EndFrame(pp, a, output_dir, ps.status, ps.color,
                    pp.is_extracting, pp.receiver, FileListOf(r))
        /\ NoSpawn(pp, ps)
        /\ listing' = [archive |-> a, ok |-> r.ok, err |-> r.err,
                       opened |-> r.opened]

\* The folder picker returns directory d.
FramePickFolder(d) ==
    LET pp == PollProgress
        ps == PollStatus
    IN  /\ EndFrame(pp, input_file, d, ps.status, ps.color,
                    pp.is_extracting, pp.receiver, file_list)
        /\ NoSpawn(pp, ps)
        /\ listing' = listing

\* The extract button's condition: clicked() && !self.is_extracting, in a
\* frame where the button is clicked.
ExtractAcceptedNoGuard(extracting) == TRUE
ExtractAccepted(extracting) == ~extracting

NewJob(input, output) ==
    [input |-> input, output |-> output, pc |-> "dispatch", i |-> 0,
     total |-> 0, result |-> Pending, emitted |-> <<>>, status_sent |-> <<>>,
     opened |-> FALSE, touched |-> FALSE, written |-> {}, failed_at |-> 0,
     empty_at_start |-> fs[output] = {}]

\* Extract click, accepted, both paths chosen: the worker is spawned.  The
\* status receiver is created and dropped at the end of the block: only
\* progress_rx is stored.
FrameExtractSpawnKeepReceiver ==
    LET pp == PollProgress
        ps == PollStatus
    IN  /\ input_file # 0 /\ output_dir # None
        /\ Len(jobs) < MaxJobs
        /\ EndFrame(pp, input_file, output_dir, <<StatusExtracting>>, ps.color,
                    TRUE,
                    IF pp.receiver # 0 THEN pp.receiver ELSE Len(jobs) + 1,
                    file_list)
        /\ jobs' = Append(jobs, NewJob(input_file, output_dir))
        /\ progress_chan' = Append(pp.chan, <<>>)
        /\ status_chan' = Append(ps.chan, <<>>)
        /\ consumed' = Append(pp.consumed, <<>>)
        /\ fs' = fs
        /\ listing' = listing
        /\ probe' = probe
FrameExtractSpawn ==
    LET pp == PollProgress
        ps == PollStatus
    IN  /\ ExtractAccepted(pp.is_extracting)
        /\ input_file # 0 /\ output_dir # None
        /\ Len(jobs) < MaxJobs
        /\ EndFrame(pp, input_file, output_dir, <<StatusExtracting>>, ps.color,
                    TRUE, Len(jobs) + 1, file_list)
        /\ jobs' = Append(jobs, NewJob(input_file, output_dir))
        /\ progress_chan' = Append(pp.chan, <<>>)
        /\ status_chan' = Append(ps.chan, <<>>)
        /\ consumed' = Append(pp.consumed, <<>>)
        /\ fs' = fs
        /\ listing' = listing
        /\ probe' = probe

\* Extract click, accepted, a path missing.
FrameExtractMissing ==
    LET pp == PollProgress
        ps == PollStatus
    IN  /\ ExtractAccepted(pp.is_extracting)
        /\ ~(input_file # 0 /\ output_dir # None)
        /\ EndFrame(pp, input_file, output_dir, <<StatusNeedBoth>>, "RED",
                    pp.is_extracting, pp.receiver, file_list)
        /\ NoSpawn(pp, ps)
        /\ listing' = listing

\* Extract click while is_extracting: the condition is false.
FrameExtractIgnored ==
    LET pp == PollProgress
        ps == PollStatus
    IN  /\ ~ExtractAccepted(pp.is_extracting)
        /\ EndFrame(pp, input_file, output_dir, ps.status, ps.color,
                    pp.is_extracting, pp.receiver, file_list)
        /\ NoSpawn(pp, ps)
        /\ listing' = listing

FrameExtractClick ==
    FrameExtractSpawn \/ FrameExtractMissing \/ FrameExtractIgnored

\* The retry button, shown when status_color is RED.
FrameRetryClick ==
    LET pp == PollProgress
        ps == PollStatus
    IN  /\ ps.color = "RED"
        /\ EndFrame(pp, input_file, output_dir, <<StatusRetry>>, "WHITE",
                    pp.is_extracting, pp.receiver, file_list)
        /\ NoSpawn(pp, ps)
        /\ listing' = listing

(***************************************************************************)
(* The worker thread of a job                                              *)
(***************************************************************************)
\* The format the worker's match on input.extension() selects.
DispatchFormatAnyCase(e) ==
    IF e.some /\ e.ext \in {<<"zip">>, <<"ZIP">>} THEN "zip"
    ELSE IF e.some /\ e.ext = <<"gz">> THEN "gz"
    ELSE "unsupported"
DispatchFormat(e) ==
    IF e.some /\ e.ext = <<"zip">> THEN "zip"
    ELSE IF e.some /\ e.ext = <<"gz">> THEN "gz"
    ELSE "unsupported"

\* The writability check at the head of extract_zip and extract_tar_gz.
ReadOnlyCheckMissing(dir) == FALSE
ReadOnlyCheck(dir) == PermissionsReadonly(dir)

\* zip::read::ZipFile::mangled_name: the normal components of the name,
\* without ".." and "." (token sequences <<".", ".">> and <<".">>).
MangledName(name) ==
    SelectSeq(Components(name), LAMBDA c : c \notin {<<".", ".">>, <<".">>})

\* What the worker iterates over in extract_tar_gz: the collected Vec of
\* io::Result<Entry>; a stream that breaks yields the entries before the
\* break, then one Err item.
TarItems(a) ==
    [k \in 1..Len(TarReadable(a)) |-> [ok |-> TRUE, entry |-> TarReadable(a)[k]]]
        \o (IF TarGzReadable(a) THEN <<>>
            ELSE << [ok |-> FALSE, entry |-> E_nil] >>)

Zeros(k) == [m \in 1..k |-> 0]

\* The bytes Entry::unpack reads for a file entry.  Every entry was collected
\* before the first is unpacked, so the underlying stream stands behind the
\* last entry: a read yields what is left there (end-of-archive zero
\* padding, or nothing), up to the entry's size.  Whether a short read is
\* an error depends on the tar crate's version: both outcomes are kept
\* (see TarEntry's outcome).
TarUnpackData(entry) == {Zeros(k) : k \in 0..Len(entry.data)}

\* progress_sender.send(ev): buffered while the consumer holds the receiver,
\* an ignored Err once the receiver is dropped.
SendProgress(j, ev) ==
    progress_chan' = IF progress_receiver = j
                     THEN [progress_chan EXCEPT ![j] = Append(@, ev)]
                     ELSE progress_chan

WorkerOnly == UNCHANGED <<consumer_vars, consumed, listing, probe>>

\* thread::spawn closure, the match on the extension.
WorkerDispatch(j) ==
    /\ j \in JobIds
    /\ jobs[j].pc = "dispatch"
    /\ LET fmt == DispatchFormat(Extension(Archives[jobs[j].input].path))
       IN  jobs' = [jobs EXCEPT ![j] =
                [@ EXCEPT !.pc = CASE fmt = "zip" -> "zip_check"
                                   [] fmt = "gz" -> "tar_check"
                                   [] OTHER -> "report",
                          !.result = IF fmt = "unsupported"
                                     THEN Err("UnsupportedFormat", ErrUnsupportedZh)
                                     ELSE Pending]]
    /\ UNCHANGED <<progress_chan, status_chan, fs>>
    /\ WorkerOnly

\* extract_zip / extract_tar_gz, the check of the output directory.
CheckStep(j, here, next) ==
    /\ j \in JobIds
    /\ jobs[j].pc = here
    /\ jobs' = [jobs EXCEPT ![j] =
            IF ReadOnlyCheck(jobs[j].output)
            THEN [@ EXCEPT !.pc = "report",
                           !.result = Err("ReadOnlyOutput",
                                          "Output directory is read-only")]
            ELSE [@ EXCEPT !.pc = next]]
    /\ UNCHANGED <<progress_chan, status_chan, fs>>
    /\ WorkerOnly

ZipCheck(j) == CheckStep(j, "zip_check", "zip_open")
TarCheck(j) == CheckStep(j, "tar_check", "tar_open")

\* extract_zip: File::open, ZipArchive::new, archive.len().
ZipOpen(j) ==
    /\ j \in JobIds
    /\ jobs[j].pc = "zip_open"
    /\ LET a == jobs[j].input
       IN  jobs' = [jobs EXCEPT ![j] =
             IF ~FileOpens(a)
             THEN [@ EXCEPT !.pc = "report",
                            !.result = Err("CorruptArchive",
                                           "io: No such file or directory")]
             ELSE IF ~ZipReadable(a)
             THEN [@ EXCEPT !.pc = "report", !.opened = TRUE,
                            !.result = Err("CorruptArchive",
                                           "zip: invalid Zip archive")]
             ELSE [@ EXCEPT !.opened = TRUE,
                            !.total = Len(Archives[a].entries),
                            !.pc = IF Len(Archives[a].entries) = 0
                                   THEN "zip_final" ELSE "zip_entry"]]
    /\ UNCHANGED <<progress_chan, status_chan, fs>>
    /\ WorkerOnly

\* The body of one entry: a directory is created; a file gets its parent,
\* is created and filled with data.  outcome is what the operating system
\* does: "ok", "fail_create" (an I/O error before the file exists) or
\* "fail_copy" (an I/O error while the data is copied; cut bytes arrived).
\* mode_ro is the permission the writer gives the finished file, before the
\* read-only bit is cleared.  Returns [ok, fs].
Materialize(f, p, isdir, data, outcome, cut, mode_ro) ==
    IF isdir
    THEN IF outcome = "ok" THEN CreateDirAll(f, p) ELSE [ok |-> FALSE, fs |-> f]
    ELSE LET par == EnsureParent(f, p)
         IN  IF ~par.ok THEN par
             ELSE IF outcome = "fail_create" THEN [ok |-> FALSE, fs |-> par.fs]
             ELSE IF outcome = "fail_copy"
             THEN [ok |-> FALSE,
                   fs |-> WriteFile(par.fs, p, SubSeq(data, 1, cut), FALSE).fs]
             ELSE LET w == WriteFile(par.fs, p, data, mode_ro)
                  IN  [ok |-> w.ok,
                       fs |-> IF w.ok THEN ClearReadonly(w.fs, p) ELSE w.fs]

Outcomes == {"ok", "fail_create", "fail_copy"}

\* The `?` on an error inside the loop over the entries: the function
\* returns Err at once.  failed_at records the turn of the loop (it is not a
\* value the program holds); next is where the loop would go on after this
\* turn.
FailContinue(job, result, next) ==
    [job EXCEPT !.result = result, !.failed_at = job.i + 1, !.i = @ + 1,
                !.pc = next]
Fail(job, result, next) ==
    [job EXCEPT !.result = result, !.failed_at = job.i + 1, !.pc = "report"]

\* extract_zip, one turn of the loop up to the progress update.
ZipEntry(j) ==
    /\ j \in JobIds
    /\ jobs[j].pc = "zip_entry"
    /\ \E outcome \in Outcomes :
       LET job == jobs[j]
           entry == Archives[job.input].entries[job.i + 1]
           isdir == EndsWith(entry.name, <<"/">>)
       IN  /\ isdir => outcome # "fail_copy"
           /\ \E cut \in 0..(IF outcome = "fail_copy" /\ Len(entry.data) > 0
                             THEN Len(entry.data) - 1 ELSE 0) :
              LET m == Materialize(fs[job.output], MangledName(entry.name),
                                   isdir, entry.data, outcome, cut, FALSE)
              IN  /\ fs' = [fs EXCEPT ![job.output] = m.fs]
                  /\ jobs' = [jobs EXCEPT ![j] =
                        IF m.ok
                        THEN [@ EXCEPT !.pc = "zip_progress",
                                       !.touched = TRUE,
                                       !.written = @ \cup {job.i + 1}]
                        ELSE [Fail(job, Err("WriteFailure", "io: write failed"),
                                   IF job.i + 1 = job.total
                                   THEN "zip_final" ELSE "zip_entry")
                                EXCEPT !.touched = @ \/ m.fs # fs[job.output]]]
    /\ UNCHANGED <<progress_chan, status_chan>>
    /\ WorkerOnly

\* extract_zip, "Send progress update".
ZipProgress(j) ==
    /\ j \in JobIds
    /\ jobs[j].pc = "zip_progress"
    /\ LET ev == ProgressEvent(jobs[j].i + 1, jobs[j].total, FALSE)
       IN  /\ SendProgress(j, ev)
           /\ jobs' = [jobs EXCEPT ![j] =
                 [@ EXCEPT !.emitted = Append(@, ev),
                           !.i = @ + 1,
                           !.pc = IF jobs[j].i + 1 = jobs[j].total
                                  THEN "zip_final" ELSE "zip_entry"]]
    /\ UNCHANGED <<status_chan, fs>>
    /\ WorkerOnly

\* extract_zip, "Send final completion status" and Ok(()).
ZipFinal(j) ==
    /\ j \in JobIds
    /\ jobs[j].pc = "zip_final"
    /\ SendProgress(j, FinalEvent)
    /\ jobs' = [jobs EXCEPT ![j] =
          [@ EXCEPT !.emitted = Append(@, FinalEvent),
                    !.result = Ok, !.pc = "report"]]
    /\ UNCHANGED <<status_chan, fs>>
    /\ WorkerOnly

\* extract_tar_gz: File::open, GzDecoder, archive.entries()?.collect().
TarOpen(j) ==
    /\ j \in JobIds
    /\ jobs[j].pc = "tar_open"
    /\ LET a == jobs[j].input
       IN  jobs' = [jobs EXCEPT ![j] =
             IF ~FileOpens(a)
             THEN [@ EXCEPT !.pc = "report",
                            !.result = Err("CorruptArchive",
                                           "io: No such file or directory")]
             ELSE IF Len(TarItems(a)) = 0
             THEN [@ EXCEPT !.opened = TRUE, !.pc = "report", !.result = Ok]
             ELSE [@ EXCEPT !.opened = TRUE, !.total = Len(TarItems(a)),
                            !.pc = "tar_progress"]]
    /\ UNCHANGED <<progress_chan, status_chan, fs>>
    /\ WorkerOnly

\* extract_tar_gz, the head of one turn of the loop: entry?, entry.path()?,
\* "Calculate and send progress".
TarProgress(j) ==
    /\ j \in JobIds
    /\ jobs[j].pc = "tar_progress"
    /\ LET item == TarItems(jobs[j].input)[jobs[j].i + 1]
           ev == ProgressEvent(jobs[j].i + 1, jobs[j].total, FALSE)
       IN  IF item.ok
           THEN /\ SendProgress(j, ev)
                /\ jobs' = [jobs EXCEPT ![j] =
                      [@ EXCEPT !.emitted = Append(@, ev), !.pc = "tar_entry"]]
           ELSE /\ progress_chan' = progress_chan
                /\ jobs' = [jobs EXCEPT ![j] =
                      Fail(@, Err("CorruptArchive", TarStreamError), "report")]
    /\ UNCHANGED <<status_chan, fs>>
    /\ WorkerOnly

\* extract_tar_gz, the rest of the turn: the directory, or the parent and
\* entry.unpack(&path); after the last turn the function returns Ok(()).
TarEntry(j) ==
    /\ j \in JobIds
    /\ jobs[j].pc = "tar_entry"
    /\ \E outcome \in Outcomes :
       LET job == jobs[j]
           entry == TarItems(job.input)[job.i + 1].entry
           isdir == entry.kind = "dir"
       IN  /\ isdir => outcome # "fail_copy"
           /\ \E data \in (IF isdir THEN {<<>>} ELSE TarUnpackData(entry)) :
              LET m == Materialize(fs[job.output], Components(entry.name),
                                   isdir, data, outcome, 0, entry.ro)
              IN  /\ fs' = [fs EXCEPT ![job.output] = m.fs]
                  /\ jobs' = [jobs EXCEPT ![j] =
                        IF m.ok
                        THEN [@ EXCEPT !.i = @ + 1,
                                       !.touched = TRUE,
                                       !.written = @ \cup {job.i + 1},
                                       !.pc = IF job.i + 1 = job.total
                                              THEN "report" ELSE "tar_progress",
                                       !.result = IF job.i + 1 = job.total
                                                  THEN Ok ELSE Pending]
                        ELSE [Fail(job, Err("WriteFailure", "io: write failed"),
                                   IF job.i + 1 = job.total
                                   THEN "report" ELSE "tar_progress")
                                EXCEPT !.touched = @ \/ m.fs # fs[job.output]]]
    /\ UNCHANGED <<progress_chan, status_chan>>
    /\ WorkerOnly

\* The end of the closure: request_repaint, then the status for the result
\* is sent on status_tx (an ignored Err when its receiver is dropped).
WorkerReport(j) ==
    /\ j \in JobIds
    /\ jobs[j].pc = "report"
    /\ LET ev == StatusEventOf(jobs[j].result)
       IN  /\ status_chan' = IF status_receiver = j
                             THEN [status_chan EXCEPT ![j] = Append(@, ev)]
                             ELSE status_chan
           /\ jobs' = [jobs EXCEPT ![j] =
                 [@ EXCEPT !.status_sent = Append(@, ev), !.pc = "done"]]
    /\ UNCHANGED <<progress_chan, fs>>
    /\ WorkerOnly

Worker(j) ==
    \/ WorkerDispatch(j)
    \/ ZipCheck(j)
    \/ ZipOpen(j)
    \/ ZipEntry(j)
    \/ ZipProgress(j)
    \/ ZipFinal(j)
    \/ TarCheck(j)
    \/ TarOpen(j)
    \/ TarProgress(j)
    \/ TarEntry(j)
    \/ WorkerReport(j)

Next ==
    \/ FrameIdle
    \/ \E a \in ArchiveIds : FramePickFile(a)
    \/ \E d \in OutDirs : FramePickFolder(d)
    \/ FrameExtractSpawn
    \/ FrameExtractMissing
    \/ FrameExtractIgnored
    \/ FrameRetryClick
    \/ \E j \in 1..MaxJobs : WorkerDispatch(j)
    \/ \E j \in 1..MaxJobs : ZipCheck(j)
    \/ \E j \in 1..MaxJobs : ZipOpen(j)
    \/ \E j \in 1..MaxJobs : ZipEntry(j)
    \/ \E j \in 1..MaxJobs : ZipProgress(j)
    \/ \E j \in 1..MaxJobs : ZipFinal(j)
    \/ \E j \in 1..MaxJobs : TarCheck(j)
    \/ \E j \in 1..MaxJobs : TarOpen(j)
    \/ \E j \in 1..MaxJobs : TarProgress(j)
    \/ \E j \in 1..MaxJobs : TarEntry(j)
    \/ \E j \in 1..MaxJobs : WorkerReport(j)

Spec == Init /\ [][Next]_vars

\* The worker thread runs to its end, and eframe keeps calling update: the
\* worker requests a repaint, and the spinner shown while is_extracting
\* animates.
FairSpec ==
    /\ Spec
    /\ \A j \in 1..MaxJobs : WF_vars(Worker(j))
    /\ WF_vars(FrameIdle)

(***************************************************************************)
(* get_file_type and the loop body of list_archive_contents as functions   *)
(* of an entry: the entry is drawn from bounded sets, then one call is     *)
(* made on it.                                                             *)
(***************************************************************************)
MaxNameLen == 3
NameTokens == {"a", "txt", "TXT", "zip", ".", "/"}
Names == UNION {[1..n -> NameTokens] : n \in 1..MaxNameLen}
Bodies == {<<>>, <<65>>, <<65, 200>>}

PureInit ==
    /\ Start
    /\ probe \in {[NoProbe EXCEPT !.name = n, !.data = b] :
                    n \in Names, b \in Bodies}

\* get_file_type(&name).
CallGetFileType ==
    /\ probe.call = "none"
    /\ probe' = [probe EXCEPT !.call = "get_file_type",
                              !.type = get_file_type(probe.name)]
    /\ UNCHANGED <<consumer_vars, jobs, progress_chan, status_chan, fs,
                   consumed, listing>>

\* The rows of the catalogue for an archive whose one entry is the probe's:
\* list_archive_contents' loop, then the file pick's map.
CallList ==
    /\ probe.call = "none"
    /\ probe' = [probe EXCEPT
            !.call = "list",
            !.rows = FileListOf([ok |-> TRUE, err |-> "", opened |-> TRUE,
                                 files |-> ListRows(<<[name |-> probe.name,
                                                       kind |-> "file",
                                                       data |-> probe.data]>>)])]
    /\ UNCHANGED <<consumer_vars, jobs, progress_chan, status_chan, fs,
                   consumed, listing>>

PureNext == CallGetFileType \/ CallList

PureSpec == PureInit /\ [][PureNext]_vars

(***************************************************************************)
(* Claims                                                                  *)
(***************************************************************************)
Job(j) == jobs[j]
ArchiveOf(j) == Archives[jobs[j].input]
Supported(path) ==
    Extension(path).some /\ Extension(path).ext \in {<<"zip">>, <<"gz">>}

\* The progress events of a successful extraction of n entries.
ExpectedProgress(n) ==
    [k \in 1..(n + 1) |->
        IF k <= n THEN ProgressEvent(k, n, FALSE) ELSE FinalEvent]

\* C1: a successful extraction of an archive with N entries, ZIP or
\* gzip-TAR, sends exactly the events 1/N, ..., N/N (finished = false) and
\* then one terminal event (1.0, finished = true), and nothing else.
C1_ProgressSequence ==
    \A j \in JobIds :
        Job(j).result.state = "ok" =>
            Job(j).emitted = ExpectedProgress(Len(ArchiveOf(j).entries))

\* C2: every job whose worker has ended, in success or in failure, emitted
\* exactly one event with finished = true, carrying 1.0, as its last event.
C2_OneTerminalEvent ==
    \A j \in JobIds :
        Job(j).pc = "done" =>
            /\ Job(j).emitted # <<>>
            /\ Last(Job(j).emitted) = FinalEvent
            /\ \A k \in 1..(Len(Job(j).emitted) - 1) : ~Job(j).emitted[k].finished

\* C3: under fair scheduling of the worker and of update(), a job that is
\* Running (is_extracting) eventually leaves Running.
C3_RunningEnds == is_extracting ~> ~is_extracting

\* C4: under fair polling, once a job's worker has ended, the consumer's
\* status and status_color eventually are the job's terminal status event.
C4_TerminalStatusShown ==
    \A j \in 1..MaxJobs :
        (j \in JobIds /\ Job(j).pc = "done")
            ~> (/\ j \in JobIds
                /\ status = StatusEventOf(Job(j).result).message
                /\ status_color = StatusEventOf(Job(j).result).color)

\* C5: no progress event is lost: in every state, the events a worker has
\* sent are those the consumer has received followed by those still buffered
\* in the channel, in send order.
C5_NoEventLost ==
    \A j \in JobIds : consumed[j] \o progress_chan[j] = Job(j).emitted

\* A worker that may still open the archive or write under the output
\* directory.
Running(j) == Job(j).pc \notin {"report", "done"}

C6_AtMostOneRunning == Cardinality({j \in JobIds : Running(j)}) <= 1

\* C6: an extract click in a frame where is_extracting is true (after the
\* frame's polls) does what a frame without a click does: it spawns no
\* worker and changes no consumer state; and in every state at most one
\* worker is opening the archive or writing under an output directory.
C6_SingleFlight ==
    /\ []C6_AtMostOneRunning
    /\ [][(FrameExtractClick /\ PollProgress.is_extracting) => FrameIdle]_vars

\* C6 witness: a job is running, both paths are chosen and the model's bound
\* would admit another job: a click here is the ignored click.
C6_Witness ==
    /\ is_extracting
    /\ \E j \in JobIds : Running(j) /\ Job(j).touched
    /\ input_file # 0 /\ output_dir # None /\ Len(jobs) < MaxJobs
    /\ ENABLED FrameExtractIgnored

\* Whether an archive format classifies the entry as a directory: ZIP by the
\* name's trailing "/", TAR by the header's entry type.
ClassifiedDir(j, entry) ==
    IF ArchiveOf(j).content = "zip" THEN EndsWith(entry.name, <<"/">>)
    ELSE entry.kind = "dir"

\* C7: after a successful extraction into an empty output directory, every
\* directory entry exists at outputDir/name as a directory and every file
\* entry as a file whose bytes are the entry's own content.
C7_RoundTrip ==
    \A j \in JobIds :
        (Job(j).result.state = "ok" /\ Job(j).empty_at_start /\ j = Len(jobs)) =>
            \A k \in 1..Len(ArchiveOf(j).entries) :
                LET entry == ArchiveOf(j).entries[k]
                    p == Components(entry.name)
                    f == fs[Job(j).output]
                IN  IF ClassifiedDir(j, entry) THEN IsDir(f, p)
                    ELSE IsFile(f, p) /\ NodeAt(f, p).data = entry.data

\* C8: a job of a supported format whose output directory is read-only
\* fails with the read-only-output error, and has not opened the archive,
\* written under the output directory or sent a progress event.
C8_ReadOnlyOutput ==
    /\ fs["ro"] = {}
    /\ \A j \in JobIds :
        (/\ Supported(ArchiveOf(j).path)
         /\ PermissionsReadonly(Job(j).output)
         /\ Job(j).pc \notin {"dispatch", "zip_check", "tar_check"}) =>
            /\ Job(j).result = Err("ReadOnlyOutput", "Output directory is read-only")
            /\ ~Job(j).opened
            /\ ~Job(j).touched
            /\ Job(j).emitted = <<>>

C8_Witness ==
    \E j \in JobIds :
        /\ \E k \in JobIds : Job(k).touched
        /\ Supported(ArchiveOf(j).path)
        /\ PermissionsReadonly(Job(j).output)
        /\ Job(j).pc = "done"

\* C9: for a path whose extension is neither zip nor gz (or that has none),
\* extraction fails with the unsupported-format error without opening the
\* file, writing or sending a progress event, and listing fails with the
\* unsupported-format error without opening the file.
C9_UnsupportedFormat ==
    /\ \A j \in JobIds :
        (~Supported(ArchiveOf(j).path) /\ Job(j).pc # "dispatch") =>
            /\ Job(j).result = Err("UnsupportedFormat", ErrUnsupportedZh)
            /\ ~Job(j).opened
            /\ ~Job(j).touched
            /\ Job(j).emitted = <<>>
    /\ (listing.archive # 0 /\ ~Supported(Archives[listing.archive].path)) =>
            /\ ~listing.ok
            /\ listing.err = "Unsupported file format"
            /\ ~listing.opened

C9_Witness ==
    /\ \E j \in JobIds :
        /\ ~Supported(ArchiveOf(j).path)
        /\ Job(j).output = "rw"
        /\ Job(j).pc = "done"
    /\ listing.archive # 0
    /\ ~Extension(Archives[listing.archive].path).some

\* The fixed message of an error category.
CategoryMsg(cat) ==
    CASE cat = "ReadOnlyOutput"    -> MsgReadOnly
      [] cat = "UnsupportedFormat" -> MsgUnsupported
      [] cat = "CorruptArchive"    -> MsgCorrupt
      [] cat = "WriteFailure"      -> MsgWrite
      [] OTHER                     -> MsgUnknown

\* C10: the terminal error message of a failed job is the fixed message of
\* the error's category; the unknown-error message is for no category.
C10_MessageByCategory ==
    \A j \in JobIds :
        (Job(j).pc = "done" /\ Job(j).result.state = "err") =>
            Last(Job(j).status_sent).message
                = <<ErrPrefix, CategoryMsg(Job(j).result.cat)>>

\* Whether a path, resolved component by component from the output
\* directory, passes through a directory above it.
Escapes(p) ==
    \E k \in 1..Len(p) :
        Cardinality({i \in 1..k : p[i] = <<".", ".">>})
            > Cardinality({i \in 1..k : p[i] # <<".", ".">>})

\* C11: every file and directory an extraction creates or writes, in either
\* format and for every entry name (names with ".." segments included),
\* lies inside the subtree of the output directory.
C11_OutputContainment ==
    \A d \in OutDirs : \A n \in fs[d] : ~Escapes(n.path)

\* The category of an extension, by the table of the classifier's rule.
CategoryOfExtension(e) ==
    CASE e = <<"txt">> -> "text"
      [] e \in {<<"jpg">>, <<"jpeg">>, <<"png">>, <<"gif">>} -> "image"
      [] e = <<"pdf">> -> "pdf"
      [] e \in {<<"zip">>, <<"gz">>, <<"tar">>} -> "archive"
      [] e \in {<<"mp3">>, <<"wav">>} -> "audio"
      [] e \in {<<"mp4">>, <<"avi">>} -> "video"
      [] e = <<"exe">> -> "executable"
      [] OTHER -> "file"

\* The reference rule: a name ending in "/" is a folder; a name with no "."
\* has no extension and is generic; otherwise the category is that of the
\* substring after the last ".", compared case-sensitively.
ReferenceType(name) ==
    IF EndsWith(name, <<"/">>) THEN "folder"
    ELSE IF LastIndexOf(name, ".") = 0 THEN "file"
    ELSE CategoryOfExtension(SubSeq(name, LastIndexOf(name, ".") + 1, Len(name)))

\* C12: get_file_type returns, for every name, the category of the
\* reference rule.
C12_Classifier ==
    probe.call = "get_file_type" => probe.type = ReferenceType(probe.name)

\* C13: a catalogue row's preview is the lossily decoded body of the entry
\* exactly when the row's category (get_file_type of the name) is text; for
\* every other category it is the summary of that category and of the
\* entry's size, and no byte of the entry is read.
C13_PreviewAgrees ==
    probe.call = "list" =>
        LET row == probe.rows[1]
        IN  /\ row.content.text <=> row.type = "text"
            /\ row.content.text => row.content.data = Utf8Lossy(probe.data)
            /\ ~row.content.text =>
                  /\ row.content.type = row.type
                  /\ row.content.size = Len(probe.data)
                  /\ row.content.data = <<>>

\* C14: when list_archive_contents fails (unsupported extension, a file
\* that cannot be read, or an error at a later entry after rows were read),
\* the file pick leaves the catalogue empty, and leaves status,
\* status_color and is_extracting as a frame without the pick leaves them.
C14_ListingErrorSwallowed ==
    /\ [](listing.archive # 0 /\ ~listing.ok => file_list = <<>>)
    /\ [][\A a \in ArchiveIds :
            (FramePickFile(a) /\ ~Listings[a].ok) =>
                /\ file_list' = <<>>
                /\ status' = PollStatus.status
                /\ status_color' = PollStatus.color
                /\ is_extracting' = PollProgress.is_extracting]_vars

\* C14 witness: while a job is running, the last listing failed at an entry
\* after rows had been read, and the catalogue is empty.
C14_Witness ==
    /\ listing.archive # 0 /\ ~listing.ok /\ listing.opened
    /\ Listings[listing.archive].files # <<>>
    /\ file_list = <<>>
    /\ is_extracting
    /\ status = <<StatusExtracting>>

\* The path an extraction gives an entry below the output directory.
OutPath(j, entry) ==
    IF ArchiveOf(j).content = "zip" THEN MangledName(entry.name)
    ELSE Components(entry.name)

\* C15: after a successful extraction, ZIP or gzip-TAR, every entry's file
\* or directory and every directory on the way to it from the output
\* directory has its read-only bit cleared, whatever the archive recorded.
C15_ReadonlyCleared ==
    \A j \in JobIds :
        (Job(j).result.state = "ok" /\ j = Len(jobs)) =>
            \A k \in 1..Len(ArchiveOf(j).entries) :
                \A q \in Prefixes(OutPath(j, ArchiveOf(j).entries[k])) :
                    LET f == fs[Job(j).output]
                    IN  /\ Exists(f, q)
                        /\ ~Above(q) => ~NodeAt(f, q).ro

\* C15 witness: a gzip-TAR job has succeeded and wrote a file that the
\* archive records as read-only, below a directory made for it.
C15_Witness ==
    \E j \in JobIds :
        /\ j = Len(jobs)
        /\ Job(j).result.state = "ok"
        /\ ArchiveOf(j).content = "targz"
        /\ \E k \in 1..Len(ArchiveOf(j).entries) :
              LET entry == ArchiveOf(j).entries[k]
              IN  /\ entry.kind = "file" /\ entry.ro
                  /\ Len(OutPath(j, entry)) > 1
                  /\ IsFile(fs[Job(j).output], OutPath(j, entry))

\* Whether the entry's file or directory stands at its path.
Stands(j, entry) ==
    IF ClassifiedDir(j, entry) THEN IsDir(fs[Job(j).output], OutPath(j, entry))
    ELSE IsFile(fs[Job(j).output], OutPath(j, entry))

\* C16: when the extraction fails at entry k, the entries written are those
\* before k and they stay in place; from then on the job writes nothing
\* and sends no further progress event.
C16_AbortNoRollback ==
    /\ [](\A j \in JobIds :
            Job(j).failed_at # 0 =>
                /\ Job(j).written = 1..(Job(j).failed_at - 1)
                /\ \A m \in Job(j).written :
                      Stands(j, ArchiveOf(j).entries[m]))
    /\ [][\A j \in JobIds :
            Job(j).failed_at # 0 =>
                /\ jobs'[j].emitted = jobs[j].emitted
                /\ jobs'[j].written = jobs[j].written
                /\ fs' = fs]_vars

\* C16 witness: a job failed at its second entry, after the first was
\* written and a progress event sent, and its worker has ended.
C16_Witness ==
    \E j \in JobIds :
        /\ Job(j).failed_at = 2
        /\ Job(j).written = {1}
        /\ Job(j).emitted # <<>>
        /\ Job(j).pc = "done"
        /\ fs[Job(j).output] # {}

\* The progress events of a job that are not the terminal one.
EntryEvents(j) == SelectSeq(Job(j).emitted, LAMBDA ev : ~ev.finished)

\* C17: in both formats the progress event of an entry is sent after the
\* entry is written: in every state, also of a failing job, a job has sent
\* no more progress events than it has fully extracted entries.
C17_ProgressFollowsWrite ==
    \A j \in JobIds : Len(EntryEvents(j)) <= Cardinality(Job(j).written)

\* C18: a job's worker sends exactly one status event, once the extraction
\* has returned and after its last progress event: the success event when
\* the result is Ok, an error event otherwise; it never sends a second.
C18_OneStatusEvent ==
    /\ [](\A j \in JobIds :
            /\ Len(Job(j).status_sent) = (IF Job(j).pc = "done" THEN 1 ELSE 0)
            /\ Job(j).pc = "done" =>
                  /\ Job(j).result.state \in {"ok", "err"}
                  /\ Job(j).result.state = "ok" <=>
                        Job(j).status_sent[1] =
                            [message |-> <<StatusSuccess>>, color |-> "GREEN"]
                  /\ Job(j).result.state = "err" <=>
                        /\ Job(j).status_sent[1].color = "RED"
                        /\ Job(j).status_sent[1].message[1] = ErrPrefix)
    /\ [][\A j \in JobIds :
            Job(j).status_sent # <<>> =>
                /\ jobs'[j].status_sent = jobs[j].status_sent
                /\ jobs'[j].emitted = jobs[j].emitted
                /\ jobs'[j].result = jobs[j].result]_vars

\* C18 witness: two jobs have ended, one in success after sending progress
\* events, one in failure, each having sent its status event.
C18_Witness ==
    \E j, k \in JobIds :
        /\ Job(j).pc = "done" /\ Job(j).result.state = "ok"
        /\ Len(Job(j).emitted) > 1
        /\ Job(k).pc = "done" /\ Job(k).result.state = "err"
        /\ Len(Job(j).status_sent) = 1 /\ Len(Job(k).status_sent) = 1

\* a <= b for quotients <<numerator, denominator>> with positive
\* denominators.
QuotientLeq(a, b) == a[1] * b[2] <= b[1] * a[2]

\* C19: while is_extracting, the progress shown lies in [0, 1], and within
\* one job it never decreases from one state to the next: a job that
\* follows another does not begin at the earlier job's value and then
\* drop.
C19_ShownProgressMonotone ==
    /\ [](is_extracting =>
            /\ QuotientLeq(<<0, 1>>, extraction_progress)
            /\ QuotientLeq(extraction_progress, <<1, 1>>))
    /\ [][(is_extracting /\ is_extracting' /\ Len(jobs') = Len(jobs)) =>
            QuotientLeq(extraction_progress, extraction_progress')]_vars

\* The job that is current: the one the last accepted extract click
\* started (0 before the first).
CurrentJob == Len(jobs)

\* C20: every progress event the consumer applies was sent by the worker of
\* the job that is current when the frame polls: the receiver held is the
\* current job's, only the current job's events are received, and
\* extraction_progress and is_extracting change only by such an event.
C20_JobIsolation ==
    /\ [](progress_receiver \in {0, CurrentJob})
    /\ [][/\ \A j \in JobIds : consumed'[j] # consumed[j] => j = CurrentJob
          /\ extraction_progress' # extraction_progress =>
                /\ CurrentJob > 0
                /\ consumed'[CurrentJob] # consumed[CurrentJob]
                /\ extraction_progress' = Last(consumed'[CurrentJob]).fraction
          /\ (is_extracting /\ ~is_extracting') =>
                /\ CurrentJob > 0
                /\ consumed'[CurrentJob] # consumed[CurrentJob]
                /\ Last(consumed'[CurrentJob]).finished]_vars

\* C20 witness: a second job is current and the consumer has applied an
\* event of it, after having applied events of the first job.
C20_Witness ==
    /\ CurrentJob = 2
    /\ consumed[1] # <<>>
    /\ consumed[2] # <<>>
    /\ extraction_progress = Last(consumed[2]).fraction
    /\ extraction_progress # Last(consumed[1]).fraction

====
